---- MODULE Spec2Model ----
(***************************************************************************)
(* RandomPic: a build-time generator of a static "random image API".       *)
(*                                                                         *)
(* Four state machines are modelled, each from the source:                 *)
(*   Spec         main() of src/index.ts: clean, processImages('h'),       *)
(*                processImages('v'), manifest, artifacts, exit.           *)
(*   SpecShuffle  shuffle() and the index assignment of files.map, one     *)
(*                loop iteration per step.                                 *)
(*   SpecClient   the generated client script (src/random.js): the         *)
(*                session cache, getRandomUrl, its callers.                *)
(*   SpecClassify the filter of processImages on a directory listing,      *)
(*                with extname and toLowerCase on characters.              *)
(*                                                                         *)
(* JavaScript strings that the code inspects (the domain prefix, the       *)
(* URLs) are sequences of one-character strings; arrays are sequences, so  *)
(* the 0-based array index i is position i + 1.                            *)
(***************************************************************************)
EXTENDS Integers, Sequences, FiniteSets, TLC

\* ------------------------------------------------------------------ bounds

\* Largest number of entries of one source category directory (build).
MaxFiles == 2
\* Largest length of the list handed to shuffle (SpecShuffle).
MaxShuffleLen == 4
\* Math.random() is a value k / RandRes with k in 0 .. RandRes - 1.
RandRes == 4
\* Largest count embedded in the client script.
MaxCount == 2
\* Longest domain prefix, in characters.
MaxDomainLen == 2
\* Largest number of names of a listing drawn from the listing pool
\* (SpecClassify).
MaxListing == 2
\* The most img elements of a page.
MaxImgs == 1
\* The most builds of a series of builds on one source (SpecRebuild).
MaxBuilds == 2

\* --------------------------------------------------------------- Math

\* Math.random(): the numerators k of the values k / RandRes in [0, 1).
MathRandom == 0 .. (RandRes - 1)

\* Math.floor(Math.random() * n).
FloorRandomTimes(k, n) == (k * n) \div RandRes

\* ------------------------------------------------------------- shuffle

\* Swap without the second assignment: array[i] = array[j] alone.
SwapLossy(array, i, j) ==
    [p \in 1 .. Len(array) |-> IF p = i + 1 THEN array[j + 1] ELSE array[p]]

\* [array[i], array[j]] = [array[j], array[i]], i and j 0-based.
Swap(array, i, j) ==
    [p \in 1 .. Len(array) |->
        IF p = i + 1 THEN array[j + 1]
        ELSE IF p = j + 1 THEN array[i + 1]
        ELSE array[p]]

\* A draw of j below i: Math.floor(Math.random() * i).
ChosenIndexBelow(i, k) == FloorRandomTimes(k, i)

\* const j = Math.floor(Math.random() * (i + 1)) with Math.random() = k.
ChosenIndex(i, k) == FloorRandomTimes(k, i + 1)

\* One iteration of the loop of shuffle at index i with Math.random() = k.
ShuffleIteration(array, i, k) == Swap(array, i, ChosenIndex(i, k))

RECURSIVE ShuffleFrom(_, _, _)
\* The loop of shuffle from index i down to 1; ks[i] is the value that
\* Math.random() returns in the iteration at index i.
ShuffleFrom(array, i, ks) ==
    IF i > 0
    THEN ShuffleFrom(ShuffleIteration(array, i, ks[i]), i - 1, ks)
    ELSE array

\* shuffle(array), given the values Math.random() returns.
shuffle(array, ks) == ShuffleFrom(array, Len(array) - 1, ks)

\* The values Math.random() can return during shuffle of a list of length n.
RandomRuns(n) == [1 .. (n - 1) -> MathRandom]

\* files.map((file, index) => ...): the index each file of the list gets.
AssignIndices(files) == {[index |-> p - 1, file |-> files[p]] : p \in 1 .. Len(files)}

\* ------------------------------------------------------------- strings

\* The JavaScript value null (no string is equal to it).
Null == <<"null">>

\* The string literal s as a sequence of characters, for the literals used.
webp == <<".", "w", "e", "b", "p">>

\* JavaScript truthiness of a value that is null or a string.
Truthy(v) == v # Null /\ v # <<>>

\* s.endsWith('/')
EndsWithSlash(s) == Len(s) > 0 /\ s[Len(s)] = "/"

\* s.slice(0, -1)
SliceOffLast(s) == SubSeq(s, 1, Len(s) - 1)

\* The decimal digit d as a character.
DigitChar(d) == <<"0", "1", "2", "3", "4", "5", "6", "7", "8", "9">>[d + 1]

RECURSIVE NumToString(_)
\* '' + num for a non-negative integer num: its decimal digits.
NumToString(num) ==
    IF num < 10
    THEN <<DigitChar(num)>>
    ELSE Append(NumToString(num \div 10), DigitChar(num % 10))

\* ------------------------------------------------------- client script

\* The categories, in the order the code names them.
Types == <<"h", "v">>
TypeSet == {"h", "v"}

\* if (domain && domain.endsWith('/')) domain = domain.slice(0, -1);
NormalizeDomain(d) == IF Truthy(d) /\ EndsWithSlash(d) THEN SliceOffLast(d) ELSE d

\* (domain ? domain + '/' : '') + type + '/' + num + '.webp'
ComposeUrl(dom, type, num) ==
    (IF Truthy(dom) THEN dom \o <<"/">> ELSE <<>>)
        \o <<type>> \o <<"/">> \o NumToString(num) \o webp

\* getRandomUrl without the test for an empty category.
NoContentUntested(cnts, type) == FALSE

\* if (!counts[type] || counts[type] === 0) return '';
NoContent(cnts, type) == cnts[type] = 0

\* getRandomUrl without the two cache tests: every call draws.
CachedUrlNever(sess, type) == Null

\* The cached URL the two cache tests of getRandomUrl return, or Null when
\* neither test passes and a new index is drawn.
CachedUrl(sess, type) == IF Truthy(sess[type]) THEN sess[type] ELSE Null

\* A 1-based draw: Math.floor(Math.random() * counts[type]) + 1.
DrawIndexOneBased(cnts, type, k) == FloorRandomTimes(k, cnts[type]) + 1

\* Math.floor(Math.random() * counts[type])
DrawIndex(cnts, type, k) == FloorRandomTimes(k, cnts[type])

\* if (type === 'h') sessionRandomH = url; if (type === 'v') sessionRandomV = url;
StoreUrl(sess, type, url) == [sess EXCEPT ![type] = url]

\* getRandomUrl(type) on the client state cs. cs.sess is the pair of session
\* caches, ks the stream of values of Math.random() and cs.at the number of
\* values used so far. The result is the state after the call: the URL
\* returned is its field url, drew tells whether a new index was drawn and
\* draws counts the draws per category (0, 1, more).
getRandomUrl(cnts, dom, cs, type, ks) ==
    IF NoContent(cnts, type)
    THEN [cs EXCEPT !.url = <<>>, !.drew = FALSE]
    ELSE IF CachedUrl(cs.sess, type) # Null
    THEN [cs EXCEPT !.url = CachedUrl(cs.sess, type), !.drew = FALSE]
    ELSE LET num == DrawIndex(cnts, type, ks[cs.at + 1])
             url == ComposeUrl(dom, type, num)
         IN  [cs EXCEPT !.sess = StoreUrl(cs.sess, type, url),
                        !.url = url, !.drew = TRUE,
                        !.at = @ + 1,
                        !.draws = [@ EXCEPT ![type] = IF @ < 2 THEN @ + 1 ELSE @]]

\* A call of getRandomUrl(type) by `caller`, entered in the record of calls.
Call(cnts, dom, cs, caller, type, ks) ==
    LET c == getRandomUrl(cnts, dom, cs, type, ks)
    IN  [c EXCEPT !.rets = @ \cup {<<caller, type, c.url>>}]

\* The strings the script compares attributes of img elements with.
RandomH == <<"r", "a", "n", "d", "o", "m", ":", "h">>
RandomV == <<"r", "a", "n", "d", "o", "m", ":", "v">>
PathRandomH == <<"/", "r", "a", "n", "d", "o", "m", "/", "h">>
PathRandomV == <<"/", "r", "a", "n", "d", "o", "m", "/", "v">>

\* The elements a page can hold, in document order: the element with id
\* bg-box (plain, or carrying data-random-bg="v"), elements carrying
\* data-random-bg="h" / "v", and img elements: with alt="random:h" or
\* alt="random:v" and no src, with alt="random:v" and a src that holds
\* /random/h, with no alt and a src that holds /random/h or /random/v, and
\* with no alt and a src that holds neither.
DocOrder ==
    <<"bgBox", "bgBoxV", "divH", "divV", "imgH", "imgV", "imgVSrcH", "imgSrcH",
      "imgSrcV", "imgPlain">>
Elements == {DocOrder[p] : p \in 1 .. Len(DocOrder)}

\* The img elements among them (document.getElementsByTagName('img')).
ImgElements == {"imgH", "imgV", "imgVSrcH", "imgSrcH", "imgSrcV", "imgPlain"}

\* el.id
ElId(el) == IF el \in {"bgBox", "bgBoxV"} THEN "bg-box" ELSE ""
\* el.getAttribute('data-random-bg'), "none" when the attribute is absent
ElRandomBg(el) ==
    CASE el = "divH" -> "h"
      [] el \in {"divV", "bgBoxV"} -> "v"
      [] OTHER -> "none"
\* img.getAttribute('alt'), Null when the attribute is absent
ElAlt(el) ==
    CASE el = "imgH" -> RandomH
      [] el \in {"imgV", "imgVSrcH"} -> RandomV
      [] OTHER -> Null
\* img.getAttribute('src'), Null when the attribute is absent:
\* /random/h/o, x/random/h, /a/random/v? and random/h
ElSrc(el) ==
    CASE el = "imgVSrcH" -> PathRandomH \o <<"/", "o">>
      [] el = "imgSrcH" -> <<"x">> \o PathRandomH
      [] el = "imgSrcV" -> <<"/", "a">> \o PathRandomV \o <<"?">>
      [] el = "imgPlain" -> <<"r", "a", "n", "d", "o", "m", "/", "h">>
      [] OTHER -> Null

\* s.indexOf(sub): the 0-based position of the first occurrence, or -1.
indexOf(s, sub) ==
    LET at == {p \in 1 .. (Len(s) - Len(sub) + 1) : SubSeq(s, p, p + Len(sub) - 1) = sub}
    IN  IF at = {} THEN -1
        ELSE (CHOOSE p \in at : \A q \in at : p <= q) - 1

\* The category initImgTags requests for an img with these attributes:
\* if (alt === 'random:h' || (src && src.indexOf('/random/h') !== -1)) h
\* else if (alt === 'random:v' || (src && src.indexOf('/random/v') !== -1)) v
ImgType(alt, src) ==
    IF alt = RandomH \/ (Truthy(src) /\ indexOf(src, PathRandomH) # -1) THEN "h"
    ELSE IF alt = RandomV \/ (Truthy(src) /\ indexOf(src, PathRandomV) # -1) THEN "v"
    ELSE "none"

\* document.getElementById('bg-box'): the first such element, or "none".
GetBgBox(d) ==
    IF \E p \in 1 .. Len(DocOrder) : DocOrder[p] \in d /\ ElId(DocOrder[p]) = "bg-box"
    THEN DocOrder[CHOOSE p \in 1 .. Len(DocOrder) :
            /\ DocOrder[p] \in d /\ ElId(DocOrder[p]) = "bg-box"
            /\ \A q \in 1 .. (p - 1) :
                 ~(DocOrder[q] \in d /\ ElId(DocOrder[q]) = "bg-box")]
    ELSE "none"

\* 'url("' + bgUrl + '")'
CssUrl(url) == <<"url(", "\"">> \o url \o <<"\"", ")">>

\* The onload handler of a preload of url for el: the background image is
\* set and the class 'loaded' added.
Commit(cs, el, url) ==
    [cs EXCEPT !.bg = [@ EXCEPT ![el] = CssUrl(url)], !.loaded = @ \cup {el}]

\* A background that is set at once, without a preload.
StartPreloadCommitted(cs, el, url) == Commit(cs, el, url)

\* var img = new Image(); img.onload = ...; img.src = url: a preload of url
\* whose load event will commit the background of el.
StartPreload(cs, el, url) == [cs EXCEPT !.pre = @ \cup {<<el, url>>}]

RECURSIVE GenericFrom(_, _, _, _, _, _)
\* The forEach of initGenericBackgrounds from position p of the document.
GenericFrom(cnts, dom, d, cs, p, ks) ==
    IF p > Len(DocOrder) THEN cs
    ELSE LET el == DocOrder[p]
             type == ElRandomBg(el)
         IN  IF el \notin d \/ type = "none" \/ ElId(el) = "bg-box"
             THEN GenericFrom(cnts, dom, d, cs, p + 1, ks)
             ELSE LET c == Call(cnts, dom, cs, "initGenericBackgrounds", type, ks)
                  IN  GenericFrom(cnts, dom, d,
                          IF Truthy(c.url) THEN StartPreload(c, el, c.url) ELSE c,
                          p + 1, ks)

initGenericBackgrounds(cnts, dom, d, cs, ks) == GenericFrom(cnts, dom, d, cs, 1, ks)

\* setRandomBackground(): the bg-box background, then the generic ones.
setRandomBackground(cnts, dom, d, cs, ks) ==
    IF GetBgBox(d) # "none"
    THEN LET c == Call(cnts, dom, cs, "setRandomBackground", "h", ks)
         IN  IF ~Truthy(c.url)
             THEN c
             ELSE initGenericBackgrounds(cnts, dom, d,
                      StartPreload(c, GetBgBox(d), c.url), ks)
    ELSE initGenericBackgrounds(cnts, dom, d, cs, ks)

RECURSIVE ImgTagsFrom(_, _, _, _, _, _)
\* The loop of initImgTags from position p of the document.
ImgTagsFrom(cnts, dom, d, cs, p, ks) ==
    IF p > Len(DocOrder) THEN cs
    ELSE LET el == DocOrder[p]
             type == ImgType(ElAlt(el), ElSrc(el))
         IN  IF el \notin d \/ el \notin ImgElements \/ type = "none"
             THEN ImgTagsFrom(cnts, dom, d, cs, p + 1, ks)
             ELSE LET c == Call(cnts, dom, cs, "initImgTags", type, ks)
                  IN  ImgTagsFrom(cnts, dom, d,
                          [c EXCEPT !.imgs = [@ EXCEPT ![el] = c.url]],
                          p + 1, ks)

initImgTags(cnts, dom, d, cs, ks) == ImgTagsFrom(cnts, dom, d, cs, 1, ks)

\* init(): setRandomBackground(); initImgTags();
init(cnts, dom, d, cs, ks) ==
    initImgTags(cnts, dom, d, setRandomBackground(cnts, dom, d, cs, ks), ks)

\* The number of calls of getRandomUrl that init() can make on document d.
CallSites(d) == Cardinality(d)

\* The number of values of Math.random() that init() uses from state cs:
\* whether a call draws depends on the counts and on which caches are set,
\* never on the values drawn, so any stream tells the number.
InitDraws(cnts, dom, d, cs) ==
    init(cnts, dom, d, cs, [p \in 1 .. CallSites(d) |-> 0]).at

\* The same for one call of getRandomUrl(type).
CallDraws(cnts, dom, cs, type) == getRandomUrl(cnts, dom, cs, type, <<0>>).at

\* --------------------------------------------------------------- build

\* const VALID_EXTENSIONS = [...], each extension as its characters
VALID_EXTENSIONS ==
    {<<".", "j", "p", "g">>, <<".", "j", "p", "e", "g">>, <<".", "p", "n", "g">>,
     <<".", "w", "e", "b", "p">>, <<".", "g", "i", "f">>, <<".", "a", "v", "i", "f">>,
     <<".", "t", "i", "f", "f">>}

\* The letters String.prototype.toLowerCase maps, and their images.
UpperCase ==
    <<"A", "B", "C", "D", "E", "F", "G", "H", "I", "J", "K", "L", "M",
      "N", "O", "P", "Q", "R", "S", "T", "U", "V", "W", "X", "Y", "Z">>
LowerCase ==
    <<"a", "b", "c", "d", "e", "f", "g", "h", "i", "j", "k", "l", "m",
      "n", "o", "p", "q", "r", "s", "t", "u", "v", "w", "x", "y", "z">>

\* toLowerCase of one character
LowerChar(ch) ==
    IF \E p \in 1 .. Len(UpperCase) : UpperCase[p] = ch
    THEN LowerCase[CHOOSE p \in 1 .. Len(UpperCase) : UpperCase[p] = ch]
    ELSE ch

\* A comparison of extensions that respects case.
ToLowerCaseNot(ext) == ext

\* ext.toLowerCase()
ToLowerCase(ext) == [p \in 1 .. Len(ext) |-> LowerChar(ext[p])]

\* The position of the last "." of name at or before p, 0 when there is none.
RECURSIVE LastDotFrom(_, _)
LastDotFrom(name, p) ==
    IF p = 0 THEN 0
    ELSE IF name[p] = "." THEN p
    ELSE LastDotFrom(name, p - 1)

\* extname(file) of node:path, for the bare name of a directory entry: from
\* the last "." to the end; empty when there is no ".", when the only "." is
\* the first character, and for "..".
extname(name) ==
    LET startDot == LastDotFrom(name, Len(name))
    IN  IF startDot <= 1 \/ name = <<".", ".">>
        THEN <<>>
        ELSE SubSeq(name, startDot, Len(name))

\* entries.filter(file => VALID_EXTENSIONS.includes(extname(file).toLowerCase()))
\* A directory entry is [name, corrupt]: name is the file name as its
\* characters and corrupt tells whether sharp fails on the file.
FilterImages(entries) ==
    SelectSeq(entries, LAMBDA file : ToLowerCase(extname(file.name)) \in VALID_EXTENSIONS)

\* The kinds of directory entry: an image sharp can read, an image (with an
\* upper-case extension) that sharp cannot read, and a file that is no image.
FileKinds ==
    {[ext |-> <<".", "j", "p", "g">>, corrupt |-> FALSE],
     [ext |-> <<".", "P", "N", "G">>, corrupt |-> TRUE],
     [ext |-> <<".", "t", "x", "t">>, corrupt |-> FALSE]}

\* The place of a kind in the order the listings keep.
KindRank(kind) ==
    CASE kind.ext = <<".", "j", "p", "g">> -> 1
      [] kind.ext = <<".", "P", "N", "G">> -> 2
      [] OTHER -> 3

\* The listings readdir can return: up to MaxFiles entries with distinct
\* names, the entry at position p being named <p><ext>. The order of a
\* listing is immaterial, since it is shuffled before it is used, so the
\* entries are listed kind by kind.
Listings ==
    UNION {{[p \in 1 .. n |-> [name |-> <<DigitChar(p)>> \o ks[p].ext,
                               corrupt |-> ks[p].corrupt]] :
               ks \in {f \in [1 .. n -> FileKinds] :
                          \A p, q \in 1 .. n : p < q => KindRank(f[p]) <= KindRank(f[q])}} :
           n \in 0 .. MaxFiles}

\* A source category directory: missing (or unreadable), or a listing.
SourceDirs ==
    {[exists |-> FALSE, entries |-> <<>>]}
        \cup {[exists |-> TRUE, entries |-> l] : l \in Listings}

\* An asset left in the output root by an earlier build.
StaleFile == [name |-> <<"0", ".", "w", "e", "b", "p">>, corrupt |-> FALSE]

\* The number of assets of a category in the output of the earlier build:
\* for h more than any build of the modelled source can produce, for v one.
StaleCount(type) == IF type = "h" THEN MaxFiles + 1 ELSE 1

\* The output root before the build: absent, or the result of an earlier
\* build. artifacts holds the names of the entries of the root other than
\* the category directories, partial those of them that a write left
\* unfinished.
NoDest ==
    [exists |-> FALSE, dirs |-> {}, out |-> [t \in TypeSet |-> {}],
     artifacts |-> {}, partial |-> {}]
StaleDest ==
    [exists |-> TRUE, dirs |-> TypeSet,
     out |-> [t \in TypeSet |->
                {[index |-> i, from |-> StaleFile] : i \in 0 .. (StaleCount(t) - 1)}],
     artifacts |-> {"manifest.json", "random.js", "old.txt"}, partial |-> {}]

\* A clean step that removes nothing.
RemoveDestNothing(dest) == dest

\* await rm(DEST_DIR, { recursive: true, force: true })
RemoveDest(dest) == NoDest

\* A task without the try/catch: the failure of sharp rejects the task.
TaskOutcomeUncaught(file) == IF file.corrupt THEN "rejected" ELSE "done"

\* sharp(inputPath).webp({ quality: 80 }).toFile(outputPath) with its
\* try/catch: how the task of one file settles.
TaskOutcome(file) == IF file.corrupt THEN "caught" ELSE "done"

\* A write whose file name is the number of assets written before it.
WriteAssetByArrival(assets, index, file) ==
    assets \cup {[index |-> Cardinality(assets), from |-> file]}

\* The output directory after toFile wrote <index>.webp from file.
WriteAsset(assets, index, file) ==
    {a \in assets : a.index # index} \cup {[index |-> index, from |-> file]}

\* A count of the files up to the first one that fails to transcode.
ReturnedCountUntilFailure(files) ==
    Cardinality({p \in 1 .. Len(files) : \A q \in 1 .. p : ~files[q].corrupt})

\* return files.length
ReturnedCount(files) == Len(files)

\* The steps of main at which an awaited operation can reject uncaught.
ThrowingSteps ==
    {"rm", "mkdir_dest", "ensure_out", "manifest", "copy_libs", "client_js",
     "gallery", "index_html", "wranglerignore"}

\* The manifest before it is built.
NoManifest == [built |-> FALSE, h |-> 0, v |-> 0]

\* ------------------------------------------------------------ variables

VARIABLES
    \* main() of src/index.ts
    pc,            \* the step main is at
    cur,           \* position in Types of the category processImages works on
    src,           \* the source tree: [type -> source directory]
    dest,          \* the output root: [exists, dirs, out, artifacts, partial]
    destBefore,    \* the output root as it was before the first build
    files,         \* [type -> the filtered, shuffled list of processImages]
    tasks,         \* [type -> [index -> state of the transcode task]]
    count,         \* [type -> hCount / vCount, -1 before processImages returns]
    manifest,      \* the manifest object of main
    manifestFile,  \* what this build wrote to dest/manifest.json
    scriptCounts,  \* the counts literal in the dest/random.js of this build
    failedAt,      \* the step whose awaited operation rejected, or "none"
    errorLogged,   \* console.error was called by the catch of main()
    completeLogged,\* 'Build complete!' was logged
    exitCode,      \* the exit code of the process, -1 while it runs
    prevManifest,  \* what the build before this one wrote to dest/manifest.json
    run,           \* the number of this build in the series of builds
    \* shuffle() and files.map
    sInput,        \* the list shuffle was called with
    sArray,        \* array
    sI,            \* i
    sPc,           \* "loop", "returned", "mapped"
    sJs,           \* the indices j chosen so far, in the order chosen
    sIndexed,      \* the (index, file) pairs of files.map
    \* the client script
    counts,        \* var counts
    rawDomain,     \* the literal of var domain
    domain,        \* var domain
    sessionRandomH,
    sessionRandomV,
    readyState,    \* document.readyState
    scriptPc,      \* "not_run", "listening", "inited"
    dom,           \* the elements of the page
    pending,       \* preloads whose load event has not fired: (element, url)
    bgImage,       \* [element -> style.backgroundImage once set, or Null]
    loadedClass,   \* the elements with class 'loaded'
    imgSrc,        \* [element -> img.src, or Null]
    rets,          \* every (caller, type, url) a call of getRandomUrl returned
    draws,         \* [type -> number of indices drawn: 0, 1, or 2 for more]
    \* the classification of a directory listing
    kListing,      \* entries: what readdir returned
    kKept,         \* the entries the filter kept
    kFiles,        \* files after shuffle
    kPc            \* "listed", "filtered", "shuffled"

bvars == <<pc, cur, src, dest, destBefore, files, tasks, count, manifest, manifestFile,
           scriptCounts, failedAt, errorLogged, completeLogged, exitCode,
           prevManifest, run>>
svars == <<sInput, sArray, sI, sPc, sJs, sIndexed>>
cvars == <<counts, rawDomain, domain, sessionRandomH, sessionRandomV, readyState,
           scriptPc, dom, pending, bgImage, loadedClass, imgSrc, rets, draws>>
kvars == <<kListing, kKept, kFiles, kPc>>
vars == <<bvars, svars, cvars, kvars>>

\* ----------------------------------------------------------- main()

\* The state before main() runs: any source tree, any earlier output root.
InitBuild ==
    /\ pc = "rm"
    /\ cur = 1
    /\ src \in [TypeSet -> SourceDirs]
    /\ dest \in {NoDest, StaleDest}
    /\ destBefore = dest
    /\ files = [t \in TypeSet |-> <<>>]
    /\ tasks = [t \in TypeSet |-> <<>>]
    /\ count = [t \in TypeSet |-> -1]
    /\ manifest = NoManifest
    /\ manifestFile = NoManifest
    /\ scriptCounts = NoManifest
    /\ failedAt = "none"
    /\ errorLogged = FALSE
    /\ completeLogged = FALSE
    /\ exitCode = -1
    /\ prevManifest = NoManifest
    /\ run = 1

\* The build variables of a specification that does not run main().
IdleBuild ==
    /\ pc = "idle"
    /\ cur = 1
    /\ src = [t \in TypeSet |-> [exists |-> FALSE, entries |-> <<>>]]
    /\ dest = NoDest
    /\ destBefore = NoDest
    /\ files = [t \in TypeSet |-> <<>>]
    /\ tasks = [t \in TypeSet |-> <<>>]
    /\ count = [t \in TypeSet |-> -1]
    /\ manifest = NoManifest
    /\ manifestFile = NoManifest
    /\ scriptCounts = NoManifest
    /\ failedAt = "none"
    /\ errorLogged = FALSE
    /\ completeLogged = FALSE
    /\ exitCode = -1
    /\ prevManifest = NoManifest
    /\ run = 1

\* const SOURCE_DIR = 'pics'; const DEST_DIR = 'dest';
SOURCE_DIR == "pics"
DEST_DIR == "dest"

\* A source root without its category directories.
MissingSource == [t \in TypeSet |-> [exists |-> FALSE, entries |-> <<>>]]

\* A clean step that removes the source root.
RmTargetSource == SOURCE_DIR

\* The path main hands to rm.
RmTarget == DEST_DIR

\* The two roots after rm(target, { recursive: true, force: true }).
RootsAfterRm(target, s, d) ==
    [src |-> IF target = SOURCE_DIR THEN MissingSource ELSE s,
     dest |-> IF target = DEST_DIR THEN RemoveDest(d) ELSE d]

\* await rm(DEST_DIR, { recursive: true, force: true });
CleanRm ==
    /\ pc = "rm"
    /\ LET roots == RootsAfterRm(RmTarget, src, dest)
       IN  /\ src' = roots.src
           /\ dest' = roots.dest
    /\ pc' = "mkdir_dest"
    /\ UNCHANGED <<cur, destBefore, files, tasks, count, manifest, manifestFile,
                   scriptCounts, failedAt, errorLogged, completeLogged, exitCode>>
    /\ UNCHANGED <<svars, cvars, kvars, prevManifest, run>>

\* await ensureDir(DEST_DIR);
EnsureDest ==
    /\ pc = "mkdir_dest"
    /\ dest' = [dest EXCEPT !.exists = TRUE]
    /\ pc' = "ensure_out"
    /\ cur' = 1
    /\ UNCHANGED <<src, destBefore, files, tasks, count, manifest, manifestFile,
                   scriptCounts, failedAt, errorLogged, completeLogged, exitCode>>
    /\ UNCHANGED <<svars, cvars, kvars, prevManifest, run>>

\* processImages(type): await ensureDir(outputDir);
EnsureOutputDir ==
    /\ pc = "ensure_out"
    /\ dest' = [dest EXCEPT !.exists = TRUE, !.dirs = @ \cup {Types[cur]}]
    /\ pc' = "readdir"
    /\ UNCHANGED <<cur, src, destBefore, files, tasks, count, manifest, manifestFile,
                   scriptCounts, failedAt, errorLogged, completeLogged, exitCode>>
    /\ UNCHANGED <<svars, cvars, kvars, prevManifest, run>>

\* A main that builds the manifest after the first category.
AfterFirstCategory == "manifest"

\* The step of main after processImages(Types[cur]) has returned.
AfterProcessImages == IF cur < Len(Types) THEN "ensure_out" ELSE "manifest"

\* processImages(type): readdir resolves; filter, shuffle, the empty test and
\* the dispatch of one transcode task per file by files.map.
ReadDir ==
    /\ pc = "readdir"
    /\ src[Types[cur]].exists
    /\ LET type == Types[cur]
           found == FilterImages(src[type].entries)
       IN  \E ks \in RandomRuns(Len(found)) :
             /\ files' = [files EXCEPT ![type] = shuffle(found, ks)]
             /\ IF Len(found) = 0
                THEN /\ count' = [count EXCEPT ![type] = 0]
                     /\ pc' = AfterProcessImages
                     /\ cur' = IF cur < Len(Types) THEN cur + 1 ELSE cur
                     /\ UNCHANGED tasks
                ELSE /\ tasks' = [tasks EXCEPT ![type] = [p \in 1 .. Len(found) |-> "running"]]
                     /\ pc' = "await_all"
                     /\ UNCHANGED <<count, cur>>
    /\ UNCHANGED <<src, dest, destBefore, manifest, manifestFile, scriptCounts, failedAt,
                   errorLogged, completeLogged, exitCode>>
    /\ UNCHANGED <<svars, cvars, kvars, prevManifest, run>>

\* processImages without the try/catch around readdir.
ReaddirUncaught == [thrown |-> TRUE, value |-> 0]

\* catch (error) { console.warn(...); return 0; } around readdir, filter and
\* shuffle: what processImages does when readdir rejects.
ReaddirCatch == [thrown |-> FALSE, value |-> 0]

\* processImages(type): readdir rejects; the catch warns and returns 0.
ReadDirFails ==
    /\ pc = "readdir"
    /\ ~src[Types[cur]].exists
    /\ IF ReaddirCatch.thrown
       THEN /\ pc' = "rejected"
            /\ failedAt' = "readdir"
            /\ UNCHANGED <<count, cur>>
       ELSE /\ count' = [count EXCEPT ![Types[cur]] = ReaddirCatch.value]
            /\ pc' = AfterProcessImages
            /\ cur' = IF cur < Len(Types) THEN cur + 1 ELSE cur
            /\ UNCHANGED failedAt
    /\ UNCHANGED <<src, dest, destBefore, files, tasks, manifest, manifestFile,
                   scriptCounts, errorLogged, completeLogged, exitCode>>
    /\ UNCHANGED <<svars, cvars, kvars, prevManifest, run>>

\* An output path that leaves the category out.
OutputPathFlat(type, index) == [dir |-> Types[1], index |-> index]

\* outputPath = join(outputDir, `${index}.webp`) with outputDir =
\* join(DEST_DIR, type): the directory under the output root and the index
\* that names the file.
OutputPath(type, index) == [dir |-> type, index |-> index]

\* The transcode task of index p - 1 of a category settles.
TaskSettle ==
    /\ \E type \in TypeSet : \E p \in DOMAIN tasks[type] :
         /\ tasks[type][p] = "running"
         /\ LET file == files[type][p]
                outcome == TaskOutcome(file)
                path == OutputPath(type, p - 1)
            IN  /\ tasks' = [tasks EXCEPT ![type][p] = outcome]
                /\ dest' = IF outcome = "done"
                           THEN [dest EXCEPT !.out[path.dir] = WriteAsset(@, path.index, file)]
                           ELSE dest
    /\ UNCHANGED <<pc, cur, src, destBefore, files, count, manifest, manifestFile, scriptCounts,
                   failedAt, errorLogged, completeLogged, exitCode>>
    /\ UNCHANGED <<svars, cvars, kvars, prevManifest, run>>

\* A wait that ends with the first task that settles.
SettledAny(ts) == \E p \in DOMAIN ts : ts[p] \in {"done", "caught"}

\* Promise.all(tasks) fulfils: every task has settled without rejecting.
Settled(ts) == \A p \in DOMAIN ts : ts[p] \in {"done", "caught"}

\* await Promise.all(tasks); return files.length;
PromiseAll ==
    /\ pc = "await_all"
    /\ LET type == Types[cur]
           ts == tasks[type]
       IN  IF \E p \in DOMAIN ts : ts[p] = "rejected"
           THEN /\ pc' = "rejected"
                /\ failedAt' = "await_all"
                /\ UNCHANGED <<count, cur>>
           ELSE /\ Settled(ts)
                /\ count' = [count EXCEPT ![type] = ReturnedCount(files[type])]
                /\ pc' = AfterProcessImages
                /\ cur' = IF cur < Len(Types) THEN cur + 1 ELSE cur
                /\ UNCHANGED failedAt
    /\ UNCHANGED <<src, dest, destBefore, files, tasks, manifest, manifestFile, scriptCounts,
                   errorLogged, completeLogged, exitCode>>
    /\ UNCHANGED <<svars, cvars, kvars, prevManifest, run>>

\* const manifest = { h: hCount, v: vCount, ... }
BuildManifest(cnt) == [built |-> TRUE, h |-> cnt["h"], v |-> cnt["v"]]

\* The manifest is built and written to dest/manifest.json.
WriteManifest ==
    /\ pc = "manifest"
    /\ manifest' = BuildManifest(count)
    /\ manifestFile' = manifest'
    /\ dest' = [dest EXCEPT !.artifacts = @ \cup {"manifest.json"}]
    /\ pc' = "copy_libs"
    /\ UNCHANGED <<cur, src, destBefore, files, tasks, count, scriptCounts, failedAt,
                   errorLogged, completeLogged, exitCode>>
    /\ UNCHANGED <<svars, cvars, kvars, prevManifest, run>>

\* await copyLibs();
CopyLibs ==
    /\ pc = "copy_libs"
    /\ dest' = [dest EXCEPT !.artifacts = @ \cup {"lib"}]
    /\ pc' = "client_js"
    /\ UNCHANGED <<cur, src, destBefore, files, tasks, count, manifest, manifestFile,
                   scriptCounts, failedAt, errorLogged, completeLogged, exitCode>>
    /\ UNCHANGED <<svars, cvars, kvars, prevManifest, run>>

\* A counts literal with the two counts exchanged.
EmbeddedCountsSwapped(m) == [built |-> TRUE, h |-> m.v, v |-> m.h]

\* var counts = { h: ${manifest.h}, v: ${manifest.v} };
EmbeddedCounts(m) == [built |-> TRUE, h |-> m.h, v |-> m.v]

\* await generateClientJS(manifest);
GenerateClientJS ==
    /\ pc = "client_js"
    /\ scriptCounts' = EmbeddedCounts(manifest)
    /\ dest' = [dest EXCEPT !.artifacts = @ \cup {"random.js"}]
    /\ pc' = "gallery"
    /\ UNCHANGED <<cur, src, destBefore, files, tasks, count, manifest, manifestFile,
                   failedAt, errorLogged, completeLogged, exitCode>>
    /\ UNCHANGED <<svars, cvars, kvars, prevManifest, run>>

\* await generateGalleryHtml(manifest);
GenerateGalleryHtml ==
    /\ pc = "gallery"
    /\ dest' = [dest EXCEPT !.artifacts = @ \cup {"gallery.html"}]
    /\ pc' = "index_html"
    /\ UNCHANGED <<cur, src, destBefore, files, tasks, count, manifest, manifestFile,
                   scriptCounts, failedAt, errorLogged, completeLogged, exitCode>>
    /\ UNCHANGED <<svars, cvars, kvars, prevManifest, run>>

\* await generateIndexHtml();
GenerateIndexHtml ==
    /\ pc = "index_html"
    /\ dest' = [dest EXCEPT !.artifacts = @ \cup {"index.html"}]
    /\ pc' = "wranglerignore"
    /\ UNCHANGED <<cur, src, destBefore, files, tasks, count, manifest, manifestFile,
                   scriptCounts, failedAt, errorLogged, completeLogged, exitCode>>
    /\ UNCHANGED <<svars, cvars, kvars, prevManifest, run>>

\* await Bun.write(join(DEST_DIR, '.wranglerignore'), ...); the two logs.
WriteWranglerIgnore ==
    /\ pc = "wranglerignore"
    /\ dest' = [dest EXCEPT !.artifacts = @ \cup {".wranglerignore"}]
    /\ completeLogged' = TRUE
    /\ pc' = "resolved"
    /\ UNCHANGED <<cur, src, destBefore, files, tasks, count, manifest, manifestFile,
                   scriptCounts, failedAt, errorLogged, exitCode>>
    /\ UNCHANGED <<svars, cvars, kvars, prevManifest, run>>

\* The output roots that rm(DEST_DIR, { recursive: true, force: true }) can
\* leave behind when it rejects: the removal is not all-or-nothing, so any
\* part of the tree may be gone already. The root itself stays, a directory
\* that still holds a file stays, an emptied directory may stay.
RemoveDestRejected(d) ==
    IF ~d.exists THEN {d}
    ELSE UNION {{[exists |-> TRUE, dirs |-> ds, out |-> o, artifacts |-> as,
                  partial |-> d.partial \cap as] :
                    ds \in {x \in SUBSET d.dirs : \A t \in TypeSet : o[t] # {} => t \in x},
                    as \in SUBSET d.artifacts} :
                o \in {[h |-> oh, v |-> ov] : oh \in SUBSET d.out["h"],
                                               ov \in SUBSET d.out["v"]}}

\* The steps of main whose awaited operation is a Bun.write, and the file
\* each writes (717, 205, 652, 696, 730).
WritingSteps == {"manifest", "client_js", "gallery", "index_html", "wranglerignore"}
WrittenBy(step) ==
    CASE step = "manifest" -> "manifest.json"
      [] step = "client_js" -> "random.js"
      [] step = "gallery" -> "gallery.html"
      [] step = "index_html" -> "index.html"
      [] step = "wranglerignore" -> ".wranglerignore"

\* The output root after a Bun.write of file stopped before the end of the
\* content: the write goes straight to the final path, with no temporary
\* file, rename or unlink, so the file is there with a part of the content,
\* which may be none of it.
PartialWrite(d, file) ==
    [d EXCEPT !.artifacts = @ \cup {file}, !.partial = @ \cup {file}]

\* The output roots an awaited operation of main can leave behind when it
\* rejects at step: rm may have removed a part of the tree; a Bun.write
\* has created nothing, or has left a part of its file; a mkdir (704, 39,
\* 84) has created nothing.
DestAfterReject(step, d) ==
    IF step = "rm" THEN RemoveDestRejected(d)
    ELSE IF step \in WritingSteps THEN {d, PartialWrite(d, WrittenBy(step))}
    ELSE {d}

\* The manifest object of main after the awaited operation of step rejected:
\* the step that writes the manifest has built the object (710-714) before
\* its Bun.write (717) rejects.
ManifestAfterReject(step, m, cnt) == IF step = "manifest" THEN BuildManifest(cnt) ELSE m

\* The counts literal of dest/random.js after the awaited operation of step
\* rejected and left the output root d: the literal stands in the sixth
\* line of the script (115), so the part of random.js that a rejected write
\* left holds it or ends before it.
ScriptAfterReject(step, sc, m, d) ==
    IF step = "client_js" /\ "random.js" \in d.partial
    THEN {sc, EmbeddedCounts(m)}
    ELSE {sc}

\* An awaited operation of main rejects and nothing in main catches it.
Throw ==
    /\ pc \in ThrowingSteps
    /\ failedAt' = pc
    /\ dest' \in DestAfterReject(pc, dest)
    /\ manifest' = ManifestAfterReject(pc, manifest, count)
    /\ scriptCounts' \in ScriptAfterReject(pc, scriptCounts, manifest, dest')
    /\ pc' = "rejected"
    /\ UNCHANGED <<cur, src, destBefore, files, tasks, count, manifestFile,
                   errorLogged, completeLogged, exitCode>>
    /\ UNCHANGED <<svars, cvars, kvars, prevManifest, run>>

\* The output roots with one entry less: a file of a category directory, an
\* artifact, or a category directory that holds no file.
OneEntryLess(d) ==
    UNION {{[d EXCEPT !.out = [@ EXCEPT ![t] = @ \ {a}]] : a \in d.out[t]} : t \in TypeSet}
        \cup {[d EXCEPT !.artifacts = @ \ {f}, !.partial = @ \ {f}] : f \in d.artifacts}
        \cup {[d EXCEPT !.dirs = @ \ {t}] : t \in {u \in d.dirs : d.out[u] = {}}}

\* After rm has rejected, the removal it started can still go on until the
\* process exits: one more entry of the output root is removed.
RmGoesOn ==
    /\ pc \in {"rejected", "caught"}
    /\ failedAt = "rm"
    /\ dest' \in OneEntryLess(dest)
    /\ UNCHANGED <<pc, cur, src, destBefore, files, tasks, count, manifest, manifestFile,
                   scriptCounts, failedAt, errorLogged, completeLogged, exitCode>>
    /\ UNCHANGED <<svars, cvars, kvars, prevManifest, run>>

\* A handler that removes the output root of the failed build.
CatchHandlerCleans(d) == RemoveDest(d)

\* The output root after the handler console.error ran: it writes the error
\* to the console and touches no file.
CatchHandler(d) == d

\* main().catch(console.error): the rejection is handled by logging it.
CatchError ==
    /\ pc = "rejected"
    /\ errorLogged' = TRUE
    /\ dest' = CatchHandler(dest)
    /\ pc' = "caught"
    /\ UNCHANGED <<cur, src, destBefore, files, tasks, count, manifest, manifestFile,
                   scriptCounts, failedAt, completeLogged, exitCode>>
    /\ UNCHANGED <<svars, cvars, kvars, prevManifest, run>>

\* The exit code of a process whose promise chain main().catch(...) has
\* settled: nothing sets process.exitCode and no rejection is unhandled.
ExitCodeOf(state) == 0

\* The process ends once main().catch(...) has settled and no task runs.
ProcessExit ==
    /\ pc \in {"resolved", "caught"}
    /\ \A type \in TypeSet : \A p \in DOMAIN tasks[type] : tasks[type][p] # "running"
    /\ exitCode' = ExitCodeOf(pc)
    /\ pc' = "exited"
    /\ UNCHANGED <<cur, src, dest, destBefore, files, tasks, count, manifest, manifestFile,
                   scriptCounts, failedAt, errorLogged, completeLogged>>
    /\ UNCHANGED <<svars, cvars, kvars, prevManifest, run>>

\* The build is run again on the same source: a new process enters main()
\* with the output root as the build before left it, and with nothing
\* processed, built or written by itself yet.
Rebuild ==
    /\ pc = "exited"
    /\ run < MaxBuilds
    /\ run' = run + 1
    /\ prevManifest' = manifestFile
    /\ pc' = "rm"
    /\ cur' = 1
    /\ files' = [t \in TypeSet |-> <<>>]
    /\ tasks' = [t \in TypeSet |-> <<>>]
    /\ count' = [t \in TypeSet |-> -1]
    /\ manifest' = NoManifest
    /\ manifestFile' = NoManifest
    /\ scriptCounts' = NoManifest
    /\ failedAt' = "none"
    /\ errorLogged' = FALSE
    /\ completeLogged' = FALSE
    /\ exitCode' = -1
    /\ UNCHANGED <<src, dest, destBefore>>
    /\ UNCHANGED <<svars, cvars, kvars>>

\* ------------------------------------------------------- shuffle, stepwise

\* The lists of distinct file names of length at most MaxShuffleLen.
FileNames == 1 .. MaxShuffleLen
DistinctLists ==
    UNION {{l \in [1 .. n -> FileNames] : \A p, q \in 1 .. n : p # q => l[p] # l[q]} :
              n \in 0 .. MaxShuffleLen}

\* shuffle(array) is entered: let i = array.length - 1
InitShuffle ==
    /\ sInput \in DistinctLists
    /\ sArray = sInput
    /\ sI = Len(sInput) - 1
    /\ sPc = "loop"
    /\ sJs = <<>>
    /\ sIndexed = {}

\* The shuffle variables of a specification that does not step through shuffle.
IdleShuffle ==
    /\ sInput = <<>>
    /\ sArray = <<>>
    /\ sI = 0
    /\ sPc = "idle"
    /\ sJs = <<>>
    /\ sIndexed = {}

\* One iteration of the for loop: i > 0, draw j, swap, i--.
ShuffleStep ==
    /\ sPc = "loop"
    /\ sI > 0
    /\ \E k \in MathRandom :
         /\ sArray' = ShuffleIteration(sArray, sI, k)
         /\ sJs' = Append(sJs, ChosenIndex(sI, k))
    /\ sI' = sI - 1
    /\ UNCHANGED <<sInput, sPc, sIndexed>>
    /\ UNCHANGED <<bvars, cvars, kvars>>

\* The loop test fails: return array.
ShuffleReturn ==
    /\ sPc = "loop"
    /\ ~(sI > 0)
    /\ sPc' = "returned"
    /\ UNCHANGED <<sInput, sArray, sI, sJs, sIndexed>>
    /\ UNCHANGED <<bvars, cvars, kvars>>

\* files.map((file, index) => ...) over the shuffled list.
MapIndices ==
    /\ sPc = "returned"
    /\ sIndexed' = AssignIndices(sArray)
    /\ sPc' = "mapped"
    /\ UNCHANGED <<sInput, sArray, sI, sJs>>
    /\ UNCHANGED <<bvars, cvars, kvars>>

\* ------------------------------------------------- client script, actions

\* The domain prefixes: strings of at most MaxDomainLen characters.
DomainChars == {"c", "/"}
DomainPrefixes == UNION {[1 .. n -> DomainChars] : n \in 0 .. MaxDomainLen}

\* The prefixes that pages with marked elements are run with: none, and one
\* with a trailing '/'.
PagePrefixes == {<<>>, <<"c", "/">>}

\* The pages: any elements, at most one of them with id bg-box and at most
\* MaxImgs of them img elements.
Pages ==
    {d \in SUBSET Elements :
        /\ ~({"bgBox", "bgBoxV"} \subseteq d)
        /\ Cardinality(d \cap ImgElements) <= MaxImgs}

\* The page and the generated script before the script runs: any counts, and
\* either a page without marked elements and any prefix, or any page and one
\* of the two page prefixes.
InitClient ==
    /\ counts \in [TypeSet -> 0 .. MaxCount]
    /\ rawDomain \in DomainPrefixes
    /\ dom \in Pages
    /\ (dom = {} \/ rawDomain \in PagePrefixes)
    /\ readyState = "loading"
    /\ scriptPc = "not_run"
    /\ domain = Null
    /\ sessionRandomH = Null
    /\ sessionRandomV = Null
    /\ pending = {}
    /\ bgImage = [el \in Elements |-> Null]
    /\ loadedClass = {}
    /\ imgSrc = [el \in Elements |-> IF el \in dom THEN ElSrc(el) ELSE Null]
    /\ rets = {}
    /\ draws = [t \in TypeSet |-> 0]

\* The client variables of a specification that does not run the script.
IdleClient ==
    /\ counts = [t \in TypeSet |-> 0]
    /\ rawDomain = <<>>
    /\ dom = {}
    /\ readyState = "loading"
    /\ scriptPc = "idle"
    /\ domain = Null
    /\ sessionRandomH = Null
    /\ sessionRandomV = Null
    /\ pending = {}
    /\ bgImage = [el \in Elements |-> Null]
    /\ loadedClass = {}
    /\ imgSrc = [el \in Elements |-> Null]
    /\ rets = {}
    /\ draws = [t \in TypeSet |-> 0]

\* The client state a handler starts from.
ClientState ==
    [sess |-> [h |-> sessionRandomH, v |-> sessionRandomV],
     url |-> <<>>, drew |-> FALSE, at |-> 0,
     draws |-> draws, rets |-> rets,
     pre |-> pending, imgs |-> imgSrc,
     bg |-> bgImage, loaded |-> loadedClass]

\* The client state a handler leaves.
Becomes(c) ==
    /\ sessionRandomH' = c.sess["h"]
    /\ sessionRandomV' = c.sess["v"]
    /\ draws' = c.draws
    /\ rets' = c.rets
    /\ pending' = c.pre
    /\ imgSrc' = c.imgs
    /\ bgImage' = c.bg
    /\ loadedClass' = c.loaded

\* The script runs: the domain is normalised, the caches start as null, and
\* init runs at once unless the document is still loading.
RunScript ==
    /\ scriptPc = "not_run"
    /\ domain' = NormalizeDomain(rawDomain)
    /\ IF readyState = "loading"
       THEN /\ scriptPc' = "listening"
            /\ Becomes(ClientState)
       ELSE /\ scriptPc' = "inited"
            /\ \E ks \in [1 .. InitDraws(counts, domain', dom, ClientState) -> MathRandom] :
                 \E c \in {init(counts, domain', dom, ClientState, ks)} : Becomes(c)
    /\ UNCHANGED <<counts, rawDomain, readyState, dom>>
    /\ UNCHANGED <<bvars, svars, kvars>>

\* The browser has parsed the document: document.readyState leaves
\* 'loading'. The script does not run in this step; a listener it
\* registered waits for the event that follows.
ReadyStateInteractive ==
    /\ readyState = "loading"
    /\ readyState' = "interactive"
    /\ Becomes(ClientState)
    /\ UNCHANGED <<counts, rawDomain, domain, scriptPc, dom>>
    /\ UNCHANGED <<bvars, svars, kvars>>

\* DOMContentLoaded is dispatched, once, after the document was parsed: the
\* listener the script registered runs init. The script registers the
\* listener only while the document is loading (89-90), so without a
\* listener the event changes nothing and a script that runs later calls
\* init itself (92).
DOMContentLoaded ==
    /\ readyState = "interactive"
    /\ scriptPc = "listening"
    /\ scriptPc' = "inited"
    /\ \E ks \in [1 .. InitDraws(counts, domain, dom, ClientState) -> MathRandom] :
         \E c \in {init(counts, domain, dom, ClientState, ks)} : Becomes(c)
    /\ UNCHANGED <<counts, rawDomain, domain, readyState, dom>>
    /\ UNCHANGED <<bvars, svars, kvars>>

\* window.getRandomPicH = function() { return getRandomUrl('h'); };
getRandomPicH ==
    /\ scriptPc \in {"listening", "inited"}
    /\ \E ks \in [1 .. CallDraws(counts, domain, ClientState, "h") -> MathRandom] :
         \E c \in {Call(counts, domain, ClientState, "getRandomPicH", "h", ks)} : Becomes(c)
    /\ UNCHANGED <<counts, rawDomain, domain, readyState, scriptPc, dom>>
    /\ UNCHANGED <<bvars, svars, kvars>>

\* window.getRandomPicV = function() { return getRandomUrl('v'); };
getRandomPicV ==
    /\ scriptPc \in {"listening", "inited"}
    /\ \E ks \in [1 .. CallDraws(counts, domain, ClientState, "v") -> MathRandom] :
         \E c \in {Call(counts, domain, ClientState, "getRandomPicV", "v", ks)} : Becomes(c)
    /\ UNCHANGED <<counts, rawDomain, domain, readyState, scriptPc, dom>>
    /\ UNCHANGED <<bvars, svars, kvars>>

\* img.onload of a preload: the background is committed. No other handler is
\* set on the Image, so a preload that fails stays in pending for ever.
ImageLoad ==
    /\ \E pr \in pending :
         \E c \in {Commit([ClientState EXCEPT !.pre = @ \ {pr}], pr[1], pr[2])} : Becomes(c)
    /\ UNCHANGED <<counts, rawDomain, domain, readyState, scriptPc, dom>>
    /\ UNCHANGED <<bvars, svars, kvars>>

\* ------------------------------------------- the filter of processImages

\* The extensions of the names a listing is drawn from: the allow-list,
\* upper- and mixed-case spellings, extensions outside the list, a bare "."
\* and no extension.
ExtensionPool ==
    VALID_EXTENSIONS \cup
        {<<".", "P", "N", "G">>, <<".", "J", "p", "g">>, <<".", "t", "x", "t">>,
         <<".", "t", "i", "f">>, <<".", "j", "p", "g", "x">>, <<"j", "p", "g">>,
         <<".">>, <<>>}

\* The stems of those names: a letter, nothing (a dot file), and a dot.
StemPool == {<<"a">>, <<>>, <<".">>}

\* The file names of the pool.
NamePool == {stem \o ext : stem \in StemPool, ext \in ExtensionPool}

\* A directory entry of the given name.
Entry(name) == [name |-> name, corrupt |-> FALSE]

\* The listing a.jpg, b.png, c.txt, d.PNG.
ExampleListing ==
    <<Entry(<<"a", ".", "j", "p", "g">>), Entry(<<"b", ".", "p", "n", "g">>),
      Entry(<<"c", ".", "t", "x", "t">>), Entry(<<"d", ".", "P", "N", "G">>)>>

\* The names longer listings are drawn from: those of the example, a dot
\* file and an image of another kind.
ListingPool ==
    {ExampleListing[p].name : p \in 1 .. Len(ExampleListing)}
        \cup {<<".", "j", "p", "g">>, <<"e", ".", "g", "i", "f">>}

\* The listings classified: the example, every listing of one name of the
\* name pool, and every listing of up to MaxListing distinct names of the
\* listing pool.
ClassifiedListings ==
    {ExampleListing} \cup {<<Entry(name)>> : name \in NamePool} \cup
        UNION {{[p \in 1 .. n |-> Entry(ns[p])] :
                   ns \in {f \in [1 .. n -> ListingPool] :
                              \A p, q \in 1 .. n : p # q => f[p] # f[q]}} :
               n \in 0 .. MaxListing}

InitClassify ==
    /\ kListing \in ClassifiedListings
    /\ kKept = <<>>
    /\ kFiles = <<>>
    /\ kPc = "listed"

IdleClassify ==
    /\ kListing = <<>>
    /\ kKept = <<>>
    /\ kFiles = <<>>
    /\ kPc = "idle"

\* files = entries.filter(...)
FilterEntries ==
    /\ kPc = "listed"
    /\ kKept' = FilterImages(kListing)
    /\ kPc' = "filtered"
    /\ UNCHANGED <<kListing, kFiles>>
    /\ UNCHANGED <<bvars, svars, cvars>>

\* files = shuffle(files)
ShuffleKept ==
    /\ kPc = "filtered"
    /\ \E ks \in RandomRuns(Len(kKept)) : kFiles' = shuffle(kKept, ks)
    /\ kPc' = "shuffled"
    /\ UNCHANGED <<kListing, kKept>>
    /\ UNCHANGED <<bvars, svars, cvars>>

\* ------------------------------------------------------ specifications

NextBuild ==
    \/ CleanRm \/ EnsureDest \/ EnsureOutputDir \/ ReadDir \/ ReadDirFails
    \/ TaskSettle \/ PromiseAll \/ WriteManifest \/ CopyLibs \/ GenerateClientJS
    \/ GenerateGalleryHtml \/ GenerateIndexHtml \/ WriteWranglerIgnore
    \/ Throw \/ RmGoesOn \/ CatchError \/ ProcessExit

\* Builds run one after another on the same source and output root.
NextRebuild == NextBuild \/ Rebuild

NextShuffle == ShuffleStep \/ ShuffleReturn \/ MapIndices

NextClassify == FilterEntries \/ ShuffleKept

NextClient ==
    \/ RunScript \/ ReadyStateInteractive \/ DOMContentLoaded
    \/ getRandomPicH \/ getRandomPicV
    \/ ImageLoad

\* The initial states of the four machines; the variables of the machines a
\* specification does not run keep their idle values.
Init == InitBuild /\ IdleShuffle /\ IdleClient /\ IdleClassify
StartShuffle == IdleBuild /\ InitShuffle /\ IdleClient /\ IdleClassify
StartClient == IdleBuild /\ IdleShuffle /\ InitClient /\ IdleClassify
StartClassify == IdleBuild /\ IdleShuffle /\ IdleClient /\ InitClassify

\* main() of the build: one run.
Spec == Init /\ [][NextBuild]_vars

\* main() of the build, run up to MaxBuilds times.
SpecRebuild == Init /\ [][NextRebuild]_vars

\* shuffle() and the index assignment.
SpecShuffle == StartShuffle /\ [][NextShuffle]_vars

\* The generated client script in a page.
SpecClient == StartClient /\ [][NextClient]_vars

\* The filter of processImages on a directory listing.
SpecClassify == StartClassify /\ [][NextClassify]_vars

\* ------------------------------------------------------------- claims

\* The number of recognised images of a source category.
Recognised(type) ==
    IF src[type].exists THEN Len(FilterImages(src[type].entries)) ELSE 0

\* The indices of the assets of a category in the output root.
AssetIndices(type) == {a.index : a \in dest.out[type]}

\* Some file of the category failed to transcode / every task succeeded.
SomeCaught(type) == \E p \in DOMAIN tasks[type] : tasks[type][p] = "caught"
AllDone(type) == \A p \in DOMAIN tasks[type] : tasks[type][p] = "done"

\* C1 (as claimed): once the manifest is written, for every category its
\* count equals the number of assets in the output directory and every
\* index below the count has an asset, also when a transcode failed.
C1_ManifestCountsAssets ==
    manifestFile.built =>
        \A type \in TypeSet :
            /\ manifestFile[type] = Cardinality(dest.out[type])
            /\ \A i \in 0 .. (manifestFile[type] - 1) : i \in AssetIndices(type)

\* The number of occurrences of x in the sequence l.
Occurrences(l, x) == Cardinality({p \in 1 .. Len(l) : l[p] = x})

\* C2: shuffle never changes the multiset of files, and after files.map
\* the (index, file) pairs are a bijection between the input files and
\* 0 .. n - 1: no index twice, no index missing, every file exactly once.
C2_ShuffleIndexBijection ==
    /\ \A f \in FileNames : Occurrences(sArray, f) = Occurrences(sInput, f)
    /\ sPc = "mapped" =>
         /\ {r.index : r \in sIndexed} = 0 .. (Len(sInput) - 1)
         /\ {r.file : r \in sIndexed} = {sInput[p] : p \in 1 .. Len(sInput)}
         /\ \A r1, r2 \in sIndexed :
              (r1.index = r2.index \/ r1.file = r2.file) => r1 = r2

\* C2 witness: a list of three or more files was shuffled into another
\* order and indexed.
C2_Witness == sPc = "mapped" /\ Len(sInput) >= 3 /\ sArray # sInput

\* C7: when every transcode of a category succeeds, then once the manifest
\* is written the category's output directory holds exactly the indices
\* 0 .. n - 1 for its n recognised images, each asset made by this build from
\* a file of the source, and the manifest count is n, whatever the output
\* root held before.
C7_ExactOutputWhenAllSucceed ==
    manifestFile.built =>
        \A type \in TypeSet :
            AllDone(type) =>
                /\ AssetIndices(type) = 0 .. (Recognised(type) - 1)
                /\ Cardinality(dest.out[type]) = Recognised(type)
                /\ \A a \in dest.out[type] :
                     \E p \in 1 .. Len(src[type].entries) : a.from = src[type].entries[p]
                /\ manifestFile[type] = Recognised(type)

\* C7 witness: a finished build over an output root left by a larger
\* earlier build, with MaxFiles images in h, all transcoded.
C7_Witness ==
    /\ pc = "exited" /\ completeLogged
    /\ destBefore = StaleDest
    /\ Recognised("h") = MaxFiles /\ AllDone("h")
    /\ manifestFile["h"] = MaxFiles

\* C8: a failed transcode never rejects processImages or main; once
\* processImages has returned for a category, every file whose transcode
\* did not fail has its asset at its own index; and a build in which no
\* awaited step of main failed ends with both categories processed and the
\* manifest and the client script written.
C8_TranscodeFailureIsLocal ==
    /\ failedAt # "await_all"
    /\ \A type \in TypeSet :
         count[type] # -1 =>
            \A p \in 1 .. Len(files[type]) :
               ~files[type][p].corrupt =>
                  [index |-> p - 1, from |-> files[type][p]] \in dest.out[type]
    /\ (pc = "exited" /\ failedAt = "none") =>
         /\ completeLogged
         /\ \A type \in TypeSet : count[type] # -1
         /\ manifestFile.built /\ scriptCounts.built
         /\ {"manifest.json", "random.js"} \subseteq dest.artifacts

\* C8 witness: a finished build in which one transcode of h failed, another
\* of h succeeded and v was transcoded too.
C8_Witness ==
    /\ pc = "exited" /\ completeLogged
    /\ SomeCaught("h")
    /\ \E p \in DOMAIN tasks["h"] : tasks["h"][p] = "done"
    /\ dest.out["v"] # {}
    /\ "random.js" \in dest.artifacts

\* C9: a missing or unreadable source category never rejects main and
\* counts 0, and the manifest holds, for every category, 0 when its
\* directory is missing and the number of its recognised images otherwise.
C9_MissingDirectoryCountsZero ==
    /\ failedAt # "readdir"
    /\ \A type \in TypeSet :
         (~src[type].exists /\ count[type] # -1) => count[type] = 0
    /\ manifestFile.built =>
         \A type \in TypeSet : manifestFile[type] = Recognised(type)

\* C9 witness: a finished build whose h directory is missing and whose v
\* directory holds images that were transcoded.
C9_Witness ==
    /\ pc = "exited" /\ completeLogged
    /\ ~src["h"].exists
    /\ manifestFile["h"] = 0 /\ manifestFile["v"] > 0
    /\ dest.out["v"] # {}

\* C10 (as claimed): a process whose main failed at an awaited step has
\* logged the error, has not logged completion, and ends with a non-zero
\* exit code.
C10_FailureExitsNonZero ==
    (pc = "exited" /\ failedAt # "none") =>
        /\ errorLogged
        /\ ~completeLogged
        /\ exitCode # 0

\* The session cache of a category.
SessionOf(type) == IF type = "h" THEN sessionRandomH ELSE sessionRandomV

\* The URLs that calls of getRandomUrl(type) have returned.
Returned(type) == {r[3] : r \in {x \in rets : x[2] = type}}

\* The callers that have called getRandomUrl(type).
Callers(type) == {r[1] : r \in {x \in rets : x[2] = type}}

\* C3: for a category with count > 0, all calls of getRandomUrl for it, by
\* whichever caller, have returned one and the same URL, that URL is the
\* cached one, and at most one index was drawn for the category.
C3_OneUrlPerCategory ==
    \A type \in TypeSet :
        counts[type] > 0 =>
            /\ draws[type] <= 1
            /\ \A u \in Returned(type) : u = SessionOf(type)
            /\ Cardinality(Returned(type)) <= 1

\* C3 witness: with two or more images in h, the bg-box background, an img
\* tag and the public entry point have all called getRandomUrl('h') and got
\* a URL.
C3_Witness ==
    /\ counts["h"] >= 2
    /\ Returned("h") # {} /\ <<>> \notin Returned("h")
    /\ {"setRandomBackground", "initImgTags", "getRandomPicH"} \subseteq Callers("h")

\* C4: for a category with count 0, every call of getRandomUrl has returned
\* the empty string and the session cache of the category is unset.
C4_EmptyCategoryReturnsEmpty ==
    \A type \in TypeSet :
        counts[type] = 0 =>
            /\ SessionOf(type) = Null
            /\ \A u \in Returned(type) : u = <<>>

\* C4 witness: with no image in v, the public entry point and an img tag
\* both called getRandomUrl('v').
C4_Witness ==
    /\ counts["v"] = 0
    /\ {"getRandomPicV", "initImgTags"} \subseteq Callers("v")
    /\ Returned("v") = {<<>>}

RECURSIVE LastSlashFrom(_, _)
\* The position of the last '/' of a string at or before position p, 0 when
\* there is none.
LastSlashFrom(u, p) ==
    IF p = 0 THEN 0
    ELSE IF u[p] = "/" THEN p
    ELSE LastSlashFrom(u, p - 1)

\* The position of the last '/' of a string, 0 when it has none.
LastSlash(u) == LastSlashFrom(u, Len(u))

\* The last path segment of a URL, and the URL before that segment's '/'.
FileSegment(u) == SubSeq(u, LastSlash(u) + 1, Len(u))
DirPart(u) == SubSeq(u, 1, LastSlash(u) - 1)

\* The extension of a file name: its last five characters.
ExtensionOf(f) == SubSeq(f, Len(f) - 4, Len(f))
StemOf(f) == SubSeq(f, 1, Len(f) - 5)

\* The digits 0 .. 9 as characters, and the value of a digit character.
DigitChars == {DigitChar(d) : d \in 0 .. 9}
DigitValue(ch) == CHOOSE d \in 0 .. 9 : DigitChar(d) = ch

RECURSIVE ParseNat(_)
\* The number a string of decimal digits denotes.
ParseNat(ds) ==
    IF Len(ds) = 0 THEN 0
    ELSE 10 * ParseNat(SubSeq(ds, 1, Len(ds) - 1)) + DigitValue(ds[Len(ds)])

\* A string is the decimal numeral of a non-negative integer.
IsNumeral(ds) ==
    /\ Len(ds) > 0
    /\ \A p \in 1 .. Len(ds) : ds[p] \in DigitChars
    /\ (Len(ds) > 1 => ds[1] # "0")

\* A URL names the asset <type>/<i>.webp with 0 <= i < c: its last segment
\* is a numeral below c followed by .webp, the segment before it is the type.
NamesAssetOf(u, type, c) ==
    \E f \in {FileSegment(u)} :
        /\ Len(f) > 5
        /\ ExtensionOf(f) = webp
        /\ \E stem \in {StemOf(f)} :
             /\ IsNumeral(stem)
             /\ ParseNat(stem) \in 0 .. (c - 1)
        /\ FileSegment(DirPart(u)) = <<type>>

\* The index a URL carries.
IndexOf(u) == ParseNat(StemOf(FileSegment(u)))

\* C5: for a category with count c > 0, every URL returned or cached names
\* <type>/<i>.webp with 0 <= i < c, and while nothing is cached every index
\* of 0 .. c - 1 can be drawn by the next call.
C5_IndexInRange ==
    \A type \in TypeSet :
        counts[type] > 0 =>
            /\ \A u \in Returned(type) : NamesAssetOf(u, type, counts[type])
            /\ SessionOf(type) # Null => NamesAssetOf(SessionOf(type), type, counts[type])
            /\ (SessionOf(type) = Null /\ scriptPc \in {"listening", "inited"}) =>
                 \A i \in 0 .. (counts[type] - 1) :
                    IF type = "h"
                    THEN ENABLED (getRandomPicH /\ sessionRandomH' # Null
                                    /\ IndexOf(sessionRandomH') = i)
                    ELSE ENABLED (getRandomPicV /\ sessionRandomV' # Null
                                    /\ IndexOf(sessionRandomV') = i)

\* C5 witness: with MaxCount images in v, the largest index MaxCount - 1
\* is cached and was returned.
C5_Witness ==
    /\ counts["v"] = MaxCount
    /\ sessionRandomV # Null
    /\ IndexOf(sessionRandomV) = MaxCount - 1
    /\ sessionRandomV \in Returned("v")

\* The prefix with exactly one trailing '/' removed, if it has one.
StripOneSlash(d) == IF Len(d) > 0 /\ d[Len(d)] = "/" THEN SubSeq(d, 1, Len(d) - 1) ELSE d

\* The URL the claim gives for a prefix, a category and an index.
ClaimedUrl(d, type, i) ==
    IF d = <<>>
    THEN <<type>> \o <<"/">> \o NumToString(i) \o webp
    ELSE StripOneSlash(d) \o <<"/">> \o <<type>> \o <<"/">> \o NumToString(i) \o webp

\* C6 (as claimed): every non-empty URL returned is, for an empty prefix,
\* <type>/<i>.webp and, for a non-empty prefix, the prefix without one
\* trailing '/', then '/', then <type>/<i>.webp.
C6_UrlFromPrefix ==
    \A type \in TypeSet :
        \A u \in Returned(type) :
            u # <<>> => \E i \in 0 .. (counts[type] - 1) : u = ClaimedUrl(rawDomain, type, i)

\* ---- C11

\* Two characters that are equal up to the case of a letter.
SameIgnoringCase(a, b) ==
    a = b \/ \E p \in 1 .. Len(UpperCase) : {a, b} = {UpperCase[p], LowerCase[p]}

\* name ends with a spelling of the extension e, in any case, that is
\* preceded by at least one character.
HasExtension(name, e) ==
    /\ Len(name) > Len(e)
    /\ \A p \in 1 .. Len(e) : SameIgnoringCase(name[Len(name) - Len(e) + p], e[p])

\* The entry carries an extension of the allow-list.
IsImageName(file) == \E e \in VALID_EXTENSIONS : HasExtension(file.name, e)

\* C11: the filter keeps a directory entry exactly when its extension,
\* compared without regard to case, is one of .jpg .jpeg .png .webp .gif
\* .avif .tiff, in the order of the listing; a.jpg, b.png, c.txt, d.PNG yield
\* exactly three images; and the list that comes back from shuffle has as
\* many images as the filter kept.
C11_ClassifierKeepsImages ==
    /\ kPc \in {"filtered", "shuffled"} =>
         /\ kKept = SelectSeq(kListing, IsImageName)
         /\ kListing = ExampleListing => Len(kKept) = 3
    /\ kPc = "shuffled" => Len(kFiles) = Len(kKept)

\* The example listing was classified and shuffled: the entry with the
\* upper-case extension is among the three images.
C11_Witness ==
    /\ kPc = "shuffled"
    /\ kListing = ExampleListing
    /\ \E p \in 1 .. Len(kFiles) : kFiles[p] = ExampleListing[4]
    /\ Len(kFiles) = 3

\* ---- C12

\* The step main() is at, or stopped at when it failed or finished.
At ==
    IF pc \in {"rejected", "caught", "exited"}
    THEN IF failedAt = "none" THEN "resolved" ELSE failedAt
    ELSE pc

\* The stage of a step of main().
StageOf(step) ==
    CASE step \in {"rm", "mkdir_dest"} -> "Clean"
      [] step \in {"ensure_out", "readdir", "await_all"} -> "ClassifyAndTranscode"
      [] step = "manifest" -> "BuildManifest"
      [] step \in {"copy_libs", "client_js", "gallery", "index_html", "wranglerignore"} ->
             "EmitArtifacts"
      [] OTHER -> "Done"

\* How far a state is in the order Clean, ClassifyAndTranscode of the first
\* category, of the second, BuildManifest, EmitArtifacts, Done.
ProgressOf(step, category) ==
    CASE StageOf(step) = "Clean" -> 0
      [] StageOf(step) = "ClassifyAndTranscode" -> category
      [] StageOf(step) = "BuildManifest" -> Len(Types) + 1
      [] StageOf(step) = "EmitArtifacts" -> Len(Types) + 2
      [] OTHER -> Len(Types) + 3

\* What each stage of a build has and has not done yet. A step that
\* rejected belongs to its stage, and a write that rejected may have left a
\* part of its file.
StageInv ==
    /\ StageOf(At) = "Clean" =>
         /\ \A type \in TypeSet : count[type] = -1
         /\ ~manifest.built
         /\ At = "mkdir_dest" => (dest = NoDest /\ ~manifestFile.built /\ ~scriptCounts.built)
    /\ StageOf(At) = "ClassifyAndTranscode" =>
         /\ dest.exists /\ dest.artifacts = {}
         /\ ~manifest.built /\ ~manifestFile.built /\ ~scriptCounts.built
         /\ \A p \in 1 .. Len(Types) :
              /\ p < cur => count[Types[p]] # -1
              /\ p > cur => (count[Types[p]] = -1 /\ dest.out[Types[p]] = {})
    /\ StageOf(At) = "BuildManifest" =>
         /\ \A type \in TypeSet : count[type] # -1
         /\ ~manifestFile.built /\ ~scriptCounts.built
         /\ manifest.built =>
              (pc # "manifest" /\ \A type \in TypeSet : manifest[type] = count[type])
         /\ pc = "manifest" => dest.artifacts = {}
         /\ dest.artifacts \subseteq {"manifest.json"}
         /\ dest.partial = dest.artifacts
    /\ StageOf(At) \in {"EmitArtifacts", "Done"} =>
         /\ \A type \in TypeSet : count[type] # -1 /\ manifest[type] = count[type]
         /\ manifest.built /\ manifestFile = manifest
         /\ "manifest.json" \in dest.artifacts \ dest.partial
         /\ scriptCounts.built => "random.js" \in dest.artifacts
         /\ scriptCounts.built => scriptCounts = EmbeddedCounts(manifest)
         /\ StageOf(At) = "Done" =>
              /\ {"lib", "random.js", "gallery.html", "index.html", ".wranglerignore"}
                     \subseteq dest.artifacts
              /\ dest.partial = {}

\* What one step may do: an asset is written only during ClassifyAndTranscode
\* of its own category, into the directory created for it; the manifest
\* file is written only by the BuildManifest stage and the client script
\* only by EmitArtifacts; and a build never goes back to an earlier stage.
StageStep ==
    /\ \A type \in TypeSet :
         ~(dest'.out[type] \subseteq dest.out[type]) =>
            /\ StageOf(At) = "ClassifyAndTranscode" /\ Types[cur] = type
            /\ dest.exists /\ type \in dest.dirs
    /\ (manifestFile' # manifestFile /\ manifestFile'.built) => StageOf(At) = "BuildManifest"
    /\ (scriptCounts' # scriptCounts /\ scriptCounts'.built) =>
            (StageOf(At) = "EmitArtifacts" /\ manifestFile.built)
    /\ ~(dest'.artifacts \subseteq dest.artifacts) =>
            \/ StageOf(At) = "BuildManifest"
            \/ StageOf(At) = "EmitArtifacts" /\ manifestFile.built
    /\ \/ pc = "exited" /\ pc' = "rm"
       \/ ProgressOf(At', cur') >= ProgressOf(At, cur)

\* C12: within one build the stages come in the order Clean,
\* ClassifyAndTranscode per category, BuildManifest, EmitArtifacts, Done: no
\* asset is written before the output root was removed and recreated, the
\* manifest is built and written only after both categories returned their
\* counts, and the client script and the other artifacts are written only
\* after the manifest file.
C12_StageOrder == [](StageInv) /\ [][StageStep]_vars

\* C12 witness: a build went through every stage, with assets in both
\* categories, over an output root an earlier build had filled.
C12_Witness ==
    /\ pc = "resolved"
    /\ destBefore = StaleDest
    /\ dest.out["h"] # {} /\ dest.out["v"] # {}
    /\ manifestFile.built /\ scriptCounts.built

\* ---- C13

\* The element carries data-random-bg="h" or "v" and is not #bg-box.
GenericBackground(el) == ElRandomBg(el) \in TypeSet /\ ElId(el) # "bg-box"

\* A preload of url was started for the element: it is pending, or it has
\* loaded and the background is committed.
PreloadStarted(el, url) ==
    \/ <<el, url>> \in pending
    \/ el \in loadedClass /\ bgImage[el] # Null

\* C13 (as claimed): once init has run, every element marked
\* data-random-bg="h" or "v" whose category has a count above 0, except the
\* element with id bg-box, has had the preload of its category's URL started,
\* for every combination of counts and with or without #bg-box in the page.
C13_GenericBackgroundsApplied ==
    scriptPc = "inited" =>
        \A el \in dom :
            (GenericBackground(el) /\ counts[ElRandomBg(el)] > 0) =>
                /\ SessionOf(ElRandomBg(el)) # Null
                /\ PreloadStarted(el, SessionOf(ElRandomBg(el)))

\* ---- C14

\* C14: a build run again on the unchanged source builds a manifest with the
\* counts of the manifest the build before wrote, for every category, and
\* writes it with these counts if it writes it, whatever the shuffles of the
\* two builds chose and whatever the output root held before either.
C14_RebuildSameCounts ==
    (prevManifest.built /\ manifest.built) =>
        /\ \A type \in TypeSet : manifest[type] = prevManifest[type]
        /\ manifestFile.built => manifestFile = manifest

\* C14 witness: a rebuild wrote its manifest after a build that had written
\* one, over a source with MaxFiles images in h, one of which fails to
\* transcode.
C14_Witness ==
    /\ prevManifest.built /\ manifest.built /\ manifestFile.built
    /\ destBefore = StaleDest
    /\ pc = "resolved"
    /\ manifestFile["h"] = MaxFiles
    /\ SomeCaught("h")

\* ---- C15

\* C15: the counts literal of the client script a build writes holds, for
\* every category, the count of the manifest file the same build wrote; a
\* script is never generated without that manifest file, nor with a count
\* that differs from it.
C15_ScriptCountsEqualManifest ==
    /\ [](scriptCounts.built =>
            /\ manifestFile.built
            /\ \A type \in TypeSet : scriptCounts[type] = manifestFile[type])
    /\ [][(scriptCounts' # scriptCounts /\ scriptCounts'.built) =>
             /\ manifestFile'.built /\ manifest.built
             /\ \A type \in TypeSet : scriptCounts'[type] = manifestFile'[type]]_vars

\* C15 witness: a build wrote a client script whose counts differ between
\* the categories, h being the larger.
C15_Witness ==
    /\ scriptCounts.built /\ manifest.built
    /\ "random.js" \in dest.artifacts \ dest.partial
    /\ scriptCounts["h"] = MaxFiles /\ scriptCounts["v"] < MaxFiles

\* ---- C16

\* C16: no step of a build, of one that succeeds or of one that fails,
\* changes the source tree: its category directories, their entries and the
\* files themselves are after the step what they were before.
C16_SourceUntouched == [][src' = src]_vars

\* C16 witness: over a source with images in h, a build that found the
\* output of an earlier build failed after the clean step.
C16_Witness ==
    /\ src["h"].exists /\ Recognised("h") > 0
    /\ destBefore = StaleDest
    /\ pc = "exited" /\ failedAt = "ensure_out"
    /\ dest.exists

\* ---- C17

\* A transcode of the category is in flight.
InFlight(type) == \E p \in DOMAIN tasks[type] : tasks[type][p] = "running"

\* C17: within a category the list whose positions are the indices is not
\* changed once its transcodes are dispatched, and one task per position is
\* dispatched; processImages returns the count only when every transcode of
\* the category has settled, and the count is the length of that list; so
\* neither the manifest nor the manifest file ever holds a count while a
\* transcode is in flight.
C17_CountAfterTranscodes ==
    /\ [](/\ \A type \in TypeSet :
               /\ count[type] # -1 => ~InFlight(type)
               /\ InFlight(type) => Len(tasks[type]) = Len(files[type])
          /\ (manifest.built \/ manifestFile.built) =>
               \A type \in TypeSet : ~InFlight(type))
    /\ [][\A type \in TypeSet :
             /\ InFlight(type) => files'[type] = files[type]
             /\ (count'[type] # count[type] /\ count'[type] # -1) =>
                   /\ ~InFlight(type)
                   /\ files'[type] = files[type]
                   /\ count'[type] = Len(files[type])]_vars

\* C17 witness: processImages has returned MaxFiles for h after all its
\* transcodes settled, one of them by failing, and transcodes of v are in
\* flight.
C17_Witness ==
    /\ count["h"] = MaxFiles /\ SomeCaught("h")
    /\ pc = "await_all" /\ InFlight("v")
    /\ ~manifest.built

\* ---- C18

\* The transcode tasks dispatched: (category, position in files).
TaskIds == {k \in TypeSet \X (1 .. MaxFiles) : k[2] \in DOMAIN tasks[k[1]]}

\* The path the task writes to.
TargetOf(k) == OutputPath(k[1], k[2] - 1)

\* C18: every output path <category>/<index>.webp is the write target of
\* exactly one transcode task: two different tasks, of one category or of
\* two, never have the same target; once the output root is cleaned, every
\* asset in it lies at the target of the one task that was given its file;
\* and no step writes to a path that already holds an asset.
C18_OnePathOneTask ==
    /\ [](/\ \A k1, k2 \in TaskIds : TargetOf(k1) = TargetOf(k2) => k1 = k2
          /\ \A type \in TypeSet : \A a \in dest.out[type] :
               \/ At = "rm"
               \/ \E k \in TaskIds :
                    /\ TargetOf(k) = [dir |-> type, index |-> a.index]
                    /\ tasks[k[1]][k[2]] = "done"
                    /\ a.from = files[k[1]][k[2]])
    /\ [][\A type \in TypeSet : \A a \in dest'.out[type] \ dest.out[type] :
             a.index \notin AssetIndices(type)]_vars

\* C18 witness: a build with MaxFiles tasks in h and tasks in v, where both
\* categories have written the asset of index 0.
C18_Witness ==
    /\ Len(tasks["h"]) = MaxFiles /\ AllDone("h")
    /\ Len(tasks["v"]) >= 1
    /\ 0 \in AssetIndices("h") /\ 0 \in AssetIndices("v")
    /\ pc = "resolved"

\* ---- C19

\* The assets of a category as its index assignment and its failing files
\* alone determine them.
AssetsOf(list) ==
    {[index |-> p - 1, from |-> list[p]] : p \in {q \in 1 .. Len(list) : ~list[q].corrupt}}

\* C19: for a given index assignment and a given set of failing images, the
\* order in which the transcodes of a category settle makes no difference:
\* whenever processImages has returned, the output directory holds exactly
\* the assets of the files that did not fail, each at the index of its
\* position, and the count is the length of the list.
C19_OrderOfCompletionIrrelevant ==
    \A type \in TypeSet :
        count[type] # -1 =>
            /\ dest.out[type] = AssetsOf(files[type])
            /\ count[type] = Len(files[type])

\* C19 witness: processImages returned for a category of MaxFiles images
\* that were all transcoded, more than one, so that they settled in one of
\* several orders.
C19_Witness ==
    /\ count["h"] = MaxFiles /\ MaxFiles > 1
    /\ AllDone("h") /\ Len(tasks["h"]) = MaxFiles
    /\ Cardinality(dest.out["h"]) = MaxFiles

\* ---- C20

\* The category whose URL the background of an element is taken from: 'h'
\* for #bg-box, the value of data-random-bg for any other element.
BackgroundType(el) == IF ElId(el) = "bg-box" THEN "h" ELSE ElRandomBg(el)

\* The preloads of an element whose load event has not fired.
PendingOf(el) == {pr \in pending : pr[1] = el}

\* In every state: a committed background belongs to an element marked
\* loaded, and is the session-cached URL of the element's category; an
\* element has at most one preload, of that same URL, and none once its
\* background is committed.
PreloadInv ==
    \A el \in Elements :
        /\ (bgImage[el] # Null \/ el \in loadedClass) =>
              /\ el \in loadedClass /\ el \in dom
              /\ BackgroundType(el) \in TypeSet
              /\ SessionOf(BackgroundType(el)) # Null
              /\ bgImage[el] = CssUrl(SessionOf(BackgroundType(el)))
              /\ PendingOf(el) = {}
        /\ Cardinality(PendingOf(el)) <= 1
        /\ \A pr \in PendingOf(el) :
              /\ BackgroundType(el) \in TypeSet
              /\ pr[2] = SessionOf(BackgroundType(el))

\* In every step: a background is committed, and the element marked loaded,
\* only by the load event of the element's pending preload, with the URL
\* that was preloaded; and a preload is started only for an element that has
\* neither a preload nor a background yet.
PreloadStep ==
    /\ \A el \in Elements :
         (bgImage'[el] # bgImage[el] \/ (el \in loadedClass' /\ el \notin loadedClass)) =>
            \E pr \in PendingOf(el) :
               /\ pr \notin pending'
               /\ bgImage'[el] = CssUrl(pr[2])
               /\ el \in loadedClass'
    /\ \A pr \in pending' \ pending :
         /\ PendingOf(pr[1]) = {}
         /\ bgImage[pr[1]] = Null

\* C20: the background URL of an element is committed, and the element
\* marked loaded, only after the off-screen preload of that same URL has
\* fired load; a preload that never loads commits nothing and is not tried
\* again; and the committed URL is the session-cached URL of the category.
C20_CommitAfterPreload == [](PreloadInv) /\ [][PreloadStep]_vars

\* C20 witness: the background of #bg-box is committed after its preload
\* loaded, while the preload of an element marked "v" is still pending.
C20_Witness ==
    /\ bgImage["bgBox"] = CssUrl(sessionRandomH) /\ "bgBox" \in loadedClass
    /\ sessionRandomH # Null
    /\ PendingOf("divV") # {} /\ bgImage["divV"] = Null

\* ---- C21

\* The steps of main from the manifest on, and the artifact each writes.
EmitSteps ==
    <<"manifest", "copy_libs", "client_js", "gallery", "index_html", "wranglerignore">>
EmitArtifacts ==
    <<"manifest.json", "lib", "random.js", "gallery.html", "index.html", ".wranglerignore">>

\* The artifacts of the steps before the step at position n of EmitSteps.
ArtifactsBefore(n) == {EmitArtifacts[p] : p \in 1 .. (n - 1)}

\* main() failed at the step at position n of EmitSteps.
FailedAtEmit(n) == pc \in {"rejected", "caught", "exited"} /\ failedAt = EmitSteps[n]

\* The file the step at position n of EmitSteps can leave unfinished when
\* it rejects: the one its Bun.write was writing; none for the libraries,
\* whose step rejects only when the directory cannot be made (84).
UnfinishedAt(n) ==
    IF EmitSteps[n] \in WritingSteps THEN {WrittenBy(EmitSteps[n])} ELSE {}

\* In every state after a failure of the manifest write or of an artifact:
\* the output root holds every artifact of the steps before the failed one,
\* complete, and no artifact of a later step; of the failed step it holds
\* nothing or the unfinished file; the manifest file is there as written or
\* not readable at all, the client script of an earlier step is there as
\* written, every asset is there as written, and completion is not logged.
AbortInv ==
    \A n \in 1 .. Len(EmitSteps) :
        FailedAtEmit(n) =>
            /\ ArtifactsBefore(n) \subseteq dest.artifacts
            /\ dest.artifacts \subseteq ArtifactsBefore(n) \cup UnfinishedAt(n)
            /\ dest.partial = dest.artifacts \ ArtifactsBefore(n)
            /\ manifestFile.built <=> n > 1
            /\ manifestFile.built => manifestFile = manifest
            /\ n > 3 => scriptCounts.built
            /\ n < 3 => ~scriptCounts.built
            /\ scriptCounts.built => scriptCounts = EmbeddedCounts(manifest)
            /\ \A type \in TypeSet : dest.out[type] = AssetsOf(files[type])
            /\ dest.exists /\ dest.dirs = TypeSet
            /\ ~completeLogged

\* The step in which the manifest write or a generator fails: it removes
\* nothing and damages nothing that was written before it, all it can add
\* is the unfinished file of the failed step, and it writes no manifest
\* file and logs no completion.
FailingStep ==
    \A n \in 1 .. Len(EmitSteps) :
        (pc = EmitSteps[n] /\ pc' = "rejected") =>
            /\ dest'.exists = dest.exists /\ dest'.dirs = dest.dirs
            /\ dest'.out = dest.out
            /\ dest.artifacts \subseteq dest'.artifacts
            /\ dest'.artifacts \subseteq dest.artifacts \cup UnfinishedAt(n)
            /\ dest'.partial = dest'.artifacts \ dest.artifacts
            /\ manifestFile' = manifestFile
            /\ scriptCounts' # scriptCounts => n = 3
            /\ completeLogged' = completeLogged

\* Every step of a build after its manifest write or a generator has
\* failed, up to its exit: the output root, the manifest file and the
\* client script stay as they are.
AbortStep ==
    /\ FailingStep
    /\ (\E n \in 1 .. Len(EmitSteps) :
            pc \in {"rejected", "caught"} /\ failedAt = EmitSteps[n]) =>
            /\ dest' = dest
            /\ manifestFile' = manifestFile
            /\ scriptCounts' = scriptCounts
            /\ completeLogged' = completeLogged

\* C21: a failure of the manifest write or of the generation of an artifact
\* aborts the rest of the build without a rollback: no later artifact is
\* written, completion is not logged, and every asset and artifact written
\* before the failure stays in the output root as written.
C21_AbortWithoutRollback == [](AbortInv) /\ [][AbortStep]_vars

\* C21 witness: the build failed at the gallery, was logged and has exited,
\* with assets in h, the manifest, the libraries and the client script in
\* the output root, and the part of gallery.html that the rejected write
\* left.
C21_Witness ==
    /\ pc = "exited" /\ failedAt = "gallery" /\ errorLogged
    /\ dest.out["h"] # {}
    /\ dest.artifacts = {"manifest.json", "lib", "random.js", "gallery.html"}
    /\ dest.partial = {"gallery.html"}

\* ---- C22

\* The sequences of choices for a list of length n: the p-th choice, made at
\* index i = n - p, is a j in 0 .. i.
ChoiceSeqs(n) ==
    {js \in [1 .. (n - 1) -> 0 .. (n - 1)] : \A p \in 1 .. (n - 1) : js[p] <= n - p}

RECURSIVE ApplyChoicesFrom(_, _, _)
\* The list after the swaps of the choices js from index i down to 1.
ApplyChoicesFrom(array, i, js) ==
    IF i > 0
    THEN ApplyChoicesFrom(Swap(array, i, js[Len(array) - i]), i - 1, js)
    ELSE array

\* The list a sequence of choices turns the input into.
ApplyChoices(array, js) == ApplyChoicesFrom(array, Len(array) - 1, js)

RECURSIVE Factorial(_)
Factorial(n) == IF n <= 1 THEN 1 ELSE n * Factorial(n - 1)

\* C22: for a list of n distinct elements the choices of shuffle (a j in
\* 0 .. i at every index i from n - 1 down to 1, each of which Math.random
\* can yield) map one-to-one onto the n! permutations: the list returned is
\* the one the choices made lead to, no other sequence of choices leads to
\* it, and the sequences of choices open to a list lead to n! different
\* lists; for n <= 1 no choice is made and the list is returned as it was.
C22_ChoicesMatchPermutations ==
    /\ (sPc = "loop" /\ sI > 0) =>
          \A j \in 0 .. sI : \E k \in MathRandom : ChosenIndex(sI, k) = j
    /\ \A p \in 1 .. Len(sJs) : sJs[p] \in 0 .. (Len(sInput) - p)
    /\ (sPc = "loop" /\ sJs = <<>>) =>
          Cardinality({ApplyChoices(sInput, js) : js \in ChoiceSeqs(Len(sInput))})
              = Factorial(Len(sInput))
    /\ sPc = "returned" =>
          LET n == Len(sInput)
          IN  /\ sJs \in ChoiceSeqs(n)
              /\ ApplyChoices(sInput, sJs) = sArray
              /\ \A js \in ChoiceSeqs(n) : ApplyChoices(sInput, js) = sArray => js = sJs
              /\ n <= 1 => (sArray = sInput /\ sJs = <<>>)

\* C22 witness: a list of MaxShuffleLen elements was returned reversed.
C22_Witness ==
    /\ sPc = "returned"
    /\ Len(sInput) = MaxShuffleLen
    /\ \A p \in 1 .. Len(sInput) : sArray[p] = sInput[Len(sInput) + 1 - p]
    /\ Len(sJs) = MaxShuffleLen - 1

\* ---- C23

\* With Domain the value of DOMAIN:
\* const url = (DOMAIN ? `${DOMAIN}/` : '') + `${type}/${i}.webp`;
GalleryUrl(Domain, type, i) ==
    (IF Truthy(Domain) THEN Domain \o <<"/">> ELSE <<>>)
        \o <<type>> \o <<"/">> \o NumToString(i) \o webp

\* The URLs of the grid items of the gallery page, by category, in the order
\* of the loop over i; a category with count 0 is skipped.
GalleryItems(Domain, m) ==
    [type \in TypeSet |-> [p \in 1 .. m[type] |-> GalleryUrl(Domain, type, p - 1)]]

\* C23 (as claimed): for every DOMAIN, category and index the URL the gallery
\* page lists is the string the client script composes for that category and
\* index, a DOMAIN with a trailing '/' included; so every URL the client
\* returns is one the gallery lists for the category.
C23_GalleryUrlIsClientUrl ==
    /\ domain # Null =>
          \A type \in TypeSet :
              \A i \in 0 .. (counts[type] - 1) :
                  GalleryItems(rawDomain, counts)[type][i + 1] = ComposeUrl(domain, type, i)
    /\ \A type \in TypeSet :
          \A u \in Returned(type) :
              u # <<>> =>
                  \E p \in 1 .. counts[type] : u = GalleryItems(rawDomain, counts)[type][p]

====
